---- MODULE Spec2Model ----
(***************************************************************************)
(* Model of golucene's packed-integer readers (core/util packed ints:      *)
(* src/unnamed/part_000), of document.StringTokenStream                     *)
(* (src/core/document/field.go) and of analysis.TokenStreamImpl             *)
(* (src/core/analysis/tokenStream.go).                                      *)
(*                                                                         *)
(* Five specifications share the module's variables:                       *)
(*   SpecFmt   the pure functions CheckVersion, ByteCount, longCount and    *)
(*             the reader dispatch, applied to inputs drawn by Init;       *)
(*   SpecRead  deserialization of one reader from a DataInput, one step    *)
(*             per read call, every read call able to fail;                *)
(*   SpecGW    the GrowableWriter over its current Mutable;                *)
(*   SpecTS    Field.TokenStream and the StringTokenStream it hands out;   *)
(*   SpecGet   Packed8ThreeBlocks.Get on a filled reader.                    *)
(***************************************************************************)
EXTENDS Integers, Sequences, FiniteSets, TLC

VARIABLES
    \* SpecFmt: the function applied, its arguments and what it returned
    fn, aFormat, aVersion, aValueCount, aBits, fret,
    \* SpecRead: the deserialization in progress
    pc, entry, version, bitsPerValue, valueCount, format,
    log, r, err, ret, i, remaining, consumed, padRead, ioErr, ioPhase, checked,
    stream, lastLong,
    \* SpecGW: the writer, and what its caller has stored so far
    current, expected, size0, grown, gwRet,
    \* SpecTS: the consumer's stream, and the calls made on it
    held, sts, lastOp, lastRet, incSinceClean,
    \* SpecGet: the blocks of a Packed8ThreeBlocks, the index asked and the answer
    gBlocks, gIndex, gRet

fmtVars == <<fn, aFormat, aVersion, aValueCount, aBits, fret>>
readVars == <<pc, entry, version, bitsPerValue, valueCount, format,
              log, r, err, ret, i, remaining, consumed, padRead, ioErr, ioPhase, checked,
              stream, lastLong>>
gwVars == <<current, expected, size0, grown, gwRet>>
tsVars == <<held, sts, lastOp, lastRet, incSinceClean>>
getVars == <<gBlocks, gIndex, gRet>>
vars == <<fmtVars, readVars, gwVars, tsVars, getVars>>

----------------------------------------------------------------------------
(* Constants of the packed-ints code.                                      *)

PACKED_VERSION_START == 0
PACKED_VERSION_BYTE_ALIGNED == 1
PACKED_VERSION_CURRENT == PACKED_VERSION_BYTE_ALIGNED

PACKED == 0
PACKED_SINGLE_BLOCK == 1

MaxInt32 == 2147483647
PACKED8_THREE_BLOCKS_MAX_SIZE == MaxInt32 \div 3
PACKED16_THREE_BLOCKS_MAX_SIZE == MaxInt32 \div 3

(* Bounds of the model.                                                    *)
MaxValueCount == 3      \* value counts 0..MaxValueCount are deserialized
MaxFormatId == 2        \* format ids 0..MaxFormatId are met in a stream
VersionSlack == 2       \* versions START-VersionSlack..CURRENT+VersionSlack

BitsRange == 1..64
VersionInputs == (PACKED_VERSION_START - VersionSlack)..(PACKED_VERSION_CURRENT + VersionSlack)
FormatIds == 0..MaxFormatId
\* value counts handed to ByteCount and longCount
FmtCounts == (0..MaxValueCount) \cup {17, 10000}
\* value counts handed to the dispatch: those, and the ones around the
\* three-blocks bound
DispatchCounts == FmtCounts \cup
    {PACKED8_THREE_BLOCKS_MAX_SIZE - 1, PACKED8_THREE_BLOCKS_MAX_SIZE,
     PACKED8_THREE_BLOCKS_MAX_SIZE + 1, MaxInt32}

----------------------------------------------------------------------------
(* Format descriptor and version check.                                    *)

\* math.Ceil(float64(a)/float64(b)) for a >= 0, b > 0: the operands are
\* below 2^53, so the float64 product and quotient round as the exact ones.
Ceil(a, b) == (a + b - 1) \div b

\* CheckVersion without its "too new" branch
CheckVersionNoUpperBound(v) ==
    IF v < PACKED_VERSION_START THEN FALSE ELSE TRUE

\* CheckVersion: TRUE when it returns, FALSE when it panics.
CheckVersion(v) ==
    IF v < PACKED_VERSION_START THEN FALSE
    ELSE IF v > PACKED_VERSION_CURRENT THEN FALSE
    ELSE TRUE

\* PackedFormat.ByteCount and PackedFormat.longCount call each other; for
\* the two declared formats the recursion ends after one call in each direction.
RECURSIVE ByteCount(_, _, _, _), longCount(_, _, _, _)
ByteCountNoLegacy(f, packedIntsVersion, n, b) ==
    IF f = PACKED
    THEN Ceil(n * b, 8)
    ELSE 8 * longCount(f, packedIntsVersion, n, b)

ByteCount(f, packedIntsVersion, n, b) ==
    IF f = PACKED
    THEN IF packedIntsVersion < PACKED_VERSION_BYTE_ALIGNED
         THEN 8 * Ceil(n * b, 64)
         ELSE Ceil(n * b, 8)
    ELSE 8 * longCount(f, packedIntsVersion, n, b)

longCountNoRoundUp(f, packedIntsVersion, n, b) ==
    IF f = PACKED_SINGLE_BLOCK
    THEN Ceil(n, 64 \div b)
    ELSE ByteCount(f, packedIntsVersion, n, b) \div 8

longCount(f, packedIntsVersion, n, b) ==
    IF f = PACKED_SINGLE_BLOCK
    THEN LET valuesPerBlock == 64 \div b IN Ceil(n, valuesPerBlock)
    ELSE LET ans == ByteCount(f, packedIntsVersion, n, b) IN
         IF ans % 8 = 0 THEN ans \div 8 ELSE (ans \div 8) + 1

----------------------------------------------------------------------------
(* Integers as the code holds them. An int64 is the set of the positions   *)
(* (0 the lowest, 63 the highest) of its bits that are 1; a byte is a      *)
(* number in 0..255.                                                       *)

RECURSIVE Pow2(_)
Pow2(k) == IF k = 0 THEN 1 ELSE 2 * Pow2(k - 1)

\* int64(b) of a byte b
Int64OfByte(b) == {k \in 0..7 : (b \div Pow2(k)) % 2 = 1}

\* x << s on an int64: bits moved past position 63 are lost
ShiftLeft64(x, s) == {k + s : k \in {j \in x : j + s <= 63}}

----------------------------------------------------------------------------
(* Reader factory.                                                          *)

\* The dispatch with the two three-blocks cases swapped past their bound
\* check: a 24- or 48-bit array beyond the bound is refused instead of
\* being handed to the general reader.
newPackedHeaderNoHeaderStrictBound(f, v, n, b) ==
    IF ~CheckVersion(v) THEN "panic"
    ELSE IF f = PACKED_SINGLE_BLOCK THEN "newPacked64SingleBlockFromInput"
    ELSE IF f = PACKED THEN
        CASE b = 8 -> "newDirect8FromInput"
          [] b = 16 -> "newDirect16FromInput"
          [] b = 32 -> "newDirect32FromInput"
          [] b = 64 -> "newDirect64FromInput"
          [] b = 24 -> IF n <= PACKED8_THREE_BLOCKS_MAX_SIZE
                       THEN "newPacked8ThreeBlocksFromInput" ELSE "panic"
          [] b = 48 -> IF n <= PACKED16_THREE_BLOCKS_MAX_SIZE
                       THEN "newPacked16ThreeBlocksFromInput" ELSE "panic"
          [] OTHER -> "newPacked64FromInput"
    ELSE "panic"

\* newPackedHeaderNoHeader: the constructor it calls, or "panic". A Go case
\* does not fall through: a 24 or 48 case whose bound check fails leaves the
\* inner switch and reaches the newPacked64FromInput call after it.
newPackedHeaderNoHeader(f, v, n, b) ==
    IF ~CheckVersion(v) THEN "panic"
    ELSE IF f = PACKED_SINGLE_BLOCK THEN "newPacked64SingleBlockFromInput"
    ELSE IF f = PACKED THEN
        CASE b = 8 -> "newDirect8FromInput"
          [] b = 16 -> "newDirect16FromInput"
          [] b = 32 -> "newDirect32FromInput"
          [] b = 64 -> "newDirect64FromInput"
          [] b = 24 /\ n <= PACKED8_THREE_BLOCKS_MAX_SIZE -> "newPacked8ThreeBlocksFromInput"
          [] b = 48 /\ n <= PACKED16_THREE_BLOCKS_MAX_SIZE -> "newPacked16ThreeBlocksFromInput"
          [] OTHER -> "newPacked64FromInput"
    ELSE "panic"

----------------------------------------------------------------------------
(* The variables of a specification that is not running.                   *)

NilReader == [kind |-> "nil", valueCount |-> 0, bitsPerValue |-> 0,
              len |-> 0, filled |-> 0, lastSet |-> FALSE, blocks |-> <<>>]

IdleFmt ==
    /\ fn = "none" /\ aFormat = 0 /\ aVersion = 0 /\ aValueCount = 0
    /\ aBits = 1 /\ fret = "none"

IdleRead ==
    /\ pc = "idle" /\ entry = "none" /\ version = 0 /\ bitsPerValue = 1
    /\ valueCount = 0 /\ format = 0 /\ log = <<>> /\ r = NilReader
    /\ err = "nil" /\ ret = "none" /\ i = 0 /\ remaining = 0
    /\ consumed = 0 /\ padRead = 0 /\ ioErr = "nil" /\ ioPhase = "none"
    /\ checked = FALSE /\ stream = <<>> /\ lastLong = {}

IdleGW ==
    /\ current = "none" /\ expected = <<>> /\ size0 = 0
    /\ grown = FALSE /\ gwRet = [op |-> "none", index |-> 0, value |-> 0]

IdleGet == gBlocks = <<>> /\ gIndex = -1 /\ gRet = -1

IdleTS ==
    /\ held = "nil" /\ sts = "none" /\ lastOp = "none"
    /\ lastRet = "none" /\ incSinceClean = 0

----------------------------------------------------------------------------
(* SpecFmt: the pure functions, applied once to arguments drawn by Init.   *)

InitFmt ==
    /\ fn = "none" /\ fret = "none"
    /\ aFormat \in FormatIds
    /\ aVersion \in VersionInputs
    /\ aValueCount \in DispatchCounts
    /\ aBits \in BitsRange
    /\ IdleRead /\ IdleGW /\ IdleTS /\ IdleGet

CallCheckVersion ==
    /\ fn = "none"
    /\ fn' = "CheckVersion"
    /\ fret' = IF CheckVersion(aVersion) THEN "ok" ELSE "panic"
    /\ UNCHANGED <<aFormat, aVersion, aValueCount, aBits, readVars, gwVars, tsVars, getVars>>

\* ByteCount and longCount are applied to the declared formats only: for
\* any other PackedFormat value neither switch matches and the two
\* functions call each other without end.
CallByteCount ==
    /\ fn = "none"
    /\ aFormat \in {PACKED, PACKED_SINGLE_BLOCK}
    /\ aValueCount \in FmtCounts
    /\ fn' = "ByteCount"
    /\ fret' = ByteCount(aFormat, aVersion, aValueCount, aBits)
    /\ UNCHANGED <<aFormat, aVersion, aValueCount, aBits, readVars, gwVars, tsVars, getVars>>

CallLongCount ==
    /\ fn = "none"
    /\ aFormat \in {PACKED, PACKED_SINGLE_BLOCK}
    /\ aValueCount \in FmtCounts
    /\ fn' = "longCount"
    /\ fret' = longCount(aFormat, aVersion, aValueCount, aBits)
    /\ UNCHANGED <<aFormat, aVersion, aValueCount, aBits, readVars, gwVars, tsVars, getVars>>

CallNewPackedHeaderNoHeader ==
    /\ fn = "none"
    /\ fn' = "newPackedHeaderNoHeader"
    /\ fret' = newPackedHeaderNoHeader(aFormat, aVersion, aValueCount, aBits)
    /\ UNCHANGED <<aFormat, aVersion, aValueCount, aBits, readVars, gwVars, tsVars, getVars>>

NextFmt ==
    \/ CallCheckVersion
    \/ CallByteCount
    \/ CallLongCount
    \/ CallNewPackedHeaderNoHeader

SpecFmt == InitFmt /\ [][NextFmt]_vars

\* the supported versions, as the claims name them
SupportedVersion(v) == v >= PACKED_VERSION_START /\ v <= PACKED_VERSION_CURRENT

\* q is the quotient a/b rounded up (a >= 0, b > 0), said without Ceil
IsCeilOf(q, a, b) == q * b >= a /\ (q - 1) * b < a

\* C1: the reader factory maps every (format, bitsPerValue, valueCount), for
\* a supported version, to exactly one constructor: PACKED_SINGLE_BLOCK to
\* the single-block reader; PACKED with 8, 16, 32 or 64 bits to
\* Direct8/16/32/64; PACKED with 24 (48) bits and valueCount <= MaxInt32/3 to
\* Packed8ThreeBlocks (Packed16ThreeBlocks); every other PACKED input,
\* 24 and 48 bits beyond the bound included, to Packed64; and a format id
\* other than 0 and 1 fails instead of falling back to some reader.
C1_Dispatch ==
    (fn = "newPackedHeaderNoHeader" /\ SupportedVersion(aVersion)) =>
        /\ aFormat = 1 => fret = "newPacked64SingleBlockFromInput"
        /\ (aFormat = 0 /\ aBits = 8) => fret = "newDirect8FromInput"
        /\ (aFormat = 0 /\ aBits = 16) => fret = "newDirect16FromInput"
        /\ (aFormat = 0 /\ aBits = 32) => fret = "newDirect32FromInput"
        /\ (aFormat = 0 /\ aBits = 64) => fret = "newDirect64FromInput"
        /\ (aFormat = 0 /\ aBits = 24 /\ aValueCount <= MaxInt32 \div 3)
              => fret = "newPacked8ThreeBlocksFromInput"
        /\ (aFormat = 0 /\ aBits = 48 /\ aValueCount <= MaxInt32 \div 3)
              => fret = "newPacked16ThreeBlocksFromInput"
        /\ (aFormat = 0 /\ aBits \in {24, 48} /\ aValueCount > MaxInt32 \div 3)
              => fret = "newPacked64FromInput"
        /\ (aFormat = 0 /\ aBits \notin {8, 16, 24, 32, 48, 64})
              => fret = "newPacked64FromInput"
        /\ aFormat \notin {0, 1} => fret = "panic"

\* a 24-bit array one past the three-blocks bound went to the general reader
C1_Witness ==
    /\ fn = "newPackedHeaderNoHeader" /\ SupportedVersion(aVersion)
    /\ aFormat = PACKED /\ aBits = 24
    /\ aValueCount = PACKED8_THREE_BLOCKS_MAX_SIZE + 1
    /\ fret = "newPacked64FromInput"

\* C6: CheckVersion fails for every version below PACKED_VERSION_START and
\* for every version above PACKED_VERSION_CURRENT, oldest-1 and newest+1
\* among them, and succeeds for every version in [oldest, newest].
C6_CheckVersion ==
    fn = "CheckVersion" =>
        /\ aVersion < PACKED_VERSION_START => fret = "panic"
        /\ aVersion > PACKED_VERSION_CURRENT => fret = "panic"
        /\ SupportedVersion(aVersion) => fret = "ok"

\* newest+1 was refused
C6_Witness ==
    /\ fn = "CheckVersion" /\ aVersion = PACKED_VERSION_CURRENT + 1
    /\ fret = "panic"

\* C7: for PACKED, n >= 0 and b in 1..64: below BYTE_ALIGNED ByteCount is
\* 8*ceil(n*b/64), a multiple of 8; from BYTE_ALIGNED on it is ceil(n*b/8);
\* for the other format it is 8 * longCount(version, n, b).
C7_ByteCount ==
    fn = "ByteCount" =>
        /\ (aFormat = PACKED /\ aVersion < PACKED_VERSION_BYTE_ALIGNED) =>
              /\ fret % 8 = 0
              /\ IsCeilOf(fret \div 8, aValueCount * aBits, 64)
        /\ (aFormat = PACKED /\ aVersion >= PACKED_VERSION_BYTE_ALIGNED) =>
              IsCeilOf(fret, aValueCount * aBits, 8)
        /\ aFormat # PACKED =>
              /\ fret = 8 * longCount(aFormat, aVersion, aValueCount, aBits)
              /\ fret % 8 = 0
              /\ IsCeilOf(fret \div 8, aValueCount, 64 \div aBits)

\* three 3-bit values of a legacy stream take one whole word
C7_Witness ==
    /\ fn = "ByteCount" /\ aFormat = PACKED
    /\ aVersion = PACKED_VERSION_START /\ aValueCount = 3 /\ aBits = 3
    /\ fret = 8

\* the words newPacked64FromInput fills from a stream of version v: the
\* whole ones of its first loop, and one more when trailing bytes follow
Packed64WordsRead(v, n, b) ==
    LET byteCount == ByteCount(PACKED, v, n, b) IN
    (byteCount \div 8) + (IF byteCount % 8 # 0 THEN 1 ELSE 0)

\* C8: for n >= 0 and b in 1..64, longCount for PACKED_SINGLE_BLOCK is
\* ceil(n / floor(64/b)); longCount for PACKED is ceil(n*b/64) whatever the
\* version, so the blocks newPacked64 allocates with the current version
\* are as many as the words read from a stream of either version.
C8_LongCount ==
    fn = "longCount" =>
        /\ aFormat = PACKED_SINGLE_BLOCK =>
              IsCeilOf(fret, aValueCount, 64 \div aBits)
        /\ aFormat = PACKED =>
              /\ IsCeilOf(fret, aValueCount * aBits, 64)
              /\ \A v \in PACKED_VERSION_START..PACKED_VERSION_CURRENT :
                    longCount(PACKED, PACKED_VERSION_CURRENT, aValueCount, aBits)
                        = Packed64WordsRead(v, aValueCount, aBits)

\* three 24-bit values of a byte-aligned stream: 9 bytes, two words
C8_Witness ==
    /\ fn = "longCount" /\ aFormat = PACKED
    /\ aVersion = PACKED_VERSION_BYTE_ALIGNED /\ aValueCount = 3 /\ aBits = 24
    /\ fret = 2

----------------------------------------------------------------------------
(* SpecRead: one deserialization. The DataInput is modelled by its read    *)
(* calls: each call either delivers (the bytes are consumed) or fails with *)
(* one of Errors. log has one entry per read call, <<what was read,        *)
(* whether the call delivered>>; ioErr and ioPhase remember the failed      *)
(* call. Values read are not kept: r holds the reader's shape only.        *)

Errors == {"EOF", "EIO"}

\* what a delivering ReadLong and a delivering ReadByte may return; stream
\* keeps what newPacked64FromInput was given, in order
WordValues == {{0}, {7, 56, 63}}
ByteValues == {0, 1, 165, 255}

FixedWidthKinds == {"Direct8", "Direct16", "Direct32", "Direct64",
                    "Packed8ThreeBlocks", "Packed16ThreeBlocks"}

\* bytes of one cell of the reader's buffer
CellBytes(kind) ==
    CASE kind = "Direct8" -> 1
      [] kind = "Direct16" -> 2
      [] kind = "Direct32" -> 4
      [] kind = "Direct64" -> 8
      [] kind = "Packed8ThreeBlocks" -> 1
      [] kind = "Packed16ThreeBlocks" -> 2
      [] kind = "Packed64" -> 8

\* newDirect8 .. newPacked16ThreeBlocks, newPacked64: the buffer allocated
NewReader(kind, n, b) ==
    [kind |-> kind, valueCount |-> n, bitsPerValue |-> b,
     len |-> CASE kind \in {"Direct8", "Direct16", "Direct32", "Direct64"} -> n
               [] kind \in {"Packed8ThreeBlocks", "Packed16ThreeBlocks"} -> n * 3
               [] kind = "Packed64" -> longCount(PACKED, PACKED_VERSION_CURRENT, n, b)
               [] OTHER -> 0,
     filled |-> 0, lastSet |-> FALSE,
     \* the blocks of a Packed64, all zero; the cells of the other readers
     \* are not kept
     blocks |-> IF kind = "Packed64"
                THEN [k \in 1..longCount(PACKED, PACKED_VERSION_CURRENT, n, b) |-> {}]
                ELSE <<>>]

\* every variant's padding taken as byteCount minus the value count
PaddingBytesPerValue(kind, v, n) ==
    CASE kind = "Direct8" -> ByteCount(PACKED, v, n, 8) - n
      [] kind = "Direct16" -> ByteCount(PACKED, v, n, 16) - n
      [] kind = "Direct32" -> ByteCount(PACKED, v, n, 32) - n
      [] kind = "Direct64" -> 0
      [] kind = "Packed8ThreeBlocks" -> ByteCount(PACKED, v, n, 24) - n
      [] kind = "Packed16ThreeBlocks" -> ByteCount(PACKED, v, n, 48) - n

\* "remaining" of the fixed-width constructors: the padding bytes to discard
\* after the elements. newDirect64FromInput has no padding loop. The
\* subtraction is taken in int64, the type of ByteCount's result.
PaddingBytes(kind, v, n) ==
    CASE kind = "Direct8" -> ByteCount(PACKED, v, n, 8) - n
      [] kind = "Direct16" -> ByteCount(PACKED, v, n, 16) - 2 * n
      [] kind = "Direct32" -> ByteCount(PACKED, v, n, 32) - 4 * n
      [] kind = "Direct64" -> 0
      [] kind = "Packed8ThreeBlocks" -> ByteCount(PACKED, v, n, 24) - 3 * n
      [] kind = "Packed16ThreeBlocks" -> ByteCount(PACKED, v, n, 48) - 3 * n * 2

InitRead == IdleFmt /\ IdleRead /\ IdleGW /\ IdleTS /\ IdleGet

Logged(kind, ok) == log' = Append(log, <<kind, ok>>)

\* a header-field read failed: newPackedReader returns nil, err
HeaderFieldFails(kind, e) ==
    /\ Logged(kind, FALSE)
    /\ ioErr' = e /\ ioPhase' = "header"
    /\ ret' = [r |-> NilReader, err |-> e]
    /\ pc' = "done"

\* a caller starts newPackedReader on an input
StartNewPackedReader ==
    /\ pc = "idle"
    /\ entry' = "newPackedReader" /\ pc' = "CheckHeader"
    /\ UNCHANGED <<version, bitsPerValue, valueCount, format, log, r, err, ret,
                   i, remaining, consumed, padRead, ioErr, ioPhase, checked>>
    /\ UNCHANGED <<stream, lastLong, fmtVars, gwVars, tsVars, getVars>>

\* a caller that holds the four fields calls newPackedHeaderNoHeader itself
StartNewPackedHeaderNoHeader ==
    /\ pc = "idle"
    /\ \E f \in FormatIds, v \in VersionInputs, n \in 0..MaxValueCount, b \in BitsRange :
          /\ format' = f /\ version' = v /\ valueCount' = n /\ bitsPerValue' = b
    /\ entry' = "newPackedHeaderNoHeader" /\ pc' = "dispatch"
    /\ UNCHANGED <<log, r, err, ret, i, remaining, consumed, padRead, ioErr,
                   ioPhase, checked>>
    /\ UNCHANGED <<stream, lastLong, fmtVars, gwVars, tsVars, getVars>>

\* codec.CheckHeader(in, name, START, CURRENT): a version in range, or an error
CheckHeader ==
    /\ pc = "CheckHeader"
    /\ \/ \E v \in PACKED_VERSION_START..PACKED_VERSION_CURRENT :
             /\ version' = v /\ Logged("header", TRUE)
             /\ pc' = "ReadBitsPerValue"
             /\ UNCHANGED <<ret, ioErr, ioPhase>>
       \/ \E e \in Errors :
             /\ HeaderFieldFails("header", e)
             /\ UNCHANGED version
    /\ UNCHANGED <<entry, bitsPerValue, valueCount, format, r, err, i, remaining,
                   consumed, padRead, checked>>
    /\ UNCHANGED <<stream, lastLong, fmtVars, gwVars, tsVars, getVars>>

ReadBitsPerValue ==
    /\ pc = "ReadBitsPerValue"
    /\ \/ \E b \in BitsRange :
             /\ bitsPerValue' = b /\ Logged("bitsPerValue", TRUE)
             /\ pc' = "ReadValueCount"
             /\ UNCHANGED <<ret, ioErr, ioPhase>>
       \/ \E e \in Errors :
             /\ HeaderFieldFails("bitsPerValue", e)
             /\ UNCHANGED bitsPerValue
    /\ UNCHANGED <<entry, version, valueCount, format, r, err, i, remaining,
                   consumed, padRead, checked>>
    /\ UNCHANGED <<stream, lastLong, fmtVars, gwVars, tsVars, getVars>>

\* the valueCount read with its error left unchecked: the format id is read
\* after a failed read
ReadValueCountUnchecked ==
    /\ pc = "ReadValueCount"
    /\ \/ \E n \in 0..MaxValueCount :
             /\ valueCount' = n /\ Logged("valueCount", TRUE)
             /\ UNCHANGED <<ioErr, ioPhase>>
       \/ \E e \in Errors :
             /\ Logged("valueCount", FALSE)
             /\ ioErr' = e /\ ioPhase' = "header"
             /\ UNCHANGED valueCount
    /\ pc' = "ReadFormat"
    /\ UNCHANGED <<entry, version, bitsPerValue, format, r, err, ret, i, remaining,
                   consumed, padRead, checked>>
    /\ UNCHANGED <<stream, lastLong, fmtVars, gwVars, tsVars, getVars>>

ReadValueCount ==
    /\ pc = "ReadValueCount"
    /\ \/ \E n \in 0..MaxValueCount :
             /\ valueCount' = n /\ Logged("valueCount", TRUE)
             /\ pc' = "ReadFormat"
             /\ UNCHANGED <<ret, ioErr, ioPhase>>
       \/ \E e \in Errors :
             /\ HeaderFieldFails("valueCount", e)
             /\ UNCHANGED valueCount
    /\ UNCHANGED <<entry, version, bitsPerValue, format, r, err, i, remaining,
                   consumed, padRead, checked>>
    /\ UNCHANGED <<stream, lastLong, fmtVars, gwVars, tsVars, getVars>>

ReadFormat ==
    /\ pc = "ReadFormat"
    /\ \/ \E id \in FormatIds :
             /\ format' = id /\ Logged("format", TRUE)
             /\ pc' = "dispatch"
             /\ UNCHANGED <<ret, ioErr, ioPhase>>
       \/ \E e \in Errors :
             /\ HeaderFieldFails("format", e)
             /\ UNCHANGED format
    /\ UNCHANGED <<entry, version, bitsPerValue, valueCount, r, err, i, remaining,
                   consumed, padRead, checked>>
    /\ UNCHANGED <<stream, lastLong, fmtVars, gwVars, tsVars, getVars>>

KindOf(ctor) ==
    CASE ctor = "newDirect8FromInput" -> "Direct8"
      [] ctor = "newDirect16FromInput" -> "Direct16"
      [] ctor = "newDirect32FromInput" -> "Direct32"
      [] ctor = "newDirect64FromInput" -> "Direct64"
      [] ctor = "newPacked8ThreeBlocksFromInput" -> "Packed8ThreeBlocks"
      [] ctor = "newPacked16ThreeBlocksFromInput" -> "Packed16ThreeBlocks"
      [] ctor = "newPacked64FromInput" -> "Packed64"
      [] ctor = "newPacked64SingleBlockFromInput" -> "Packed64SingleBlock"

\* newPackedHeaderNoHeader: CheckVersion, then the switch; the constructor
\* chosen allocates its reader and starts to read
Dispatch ==
    /\ pc = "dispatch"
    /\ LET ctor == newPackedHeaderNoHeader(format, version, valueCount, bitsPerValue) IN
       IF ctor = "panic"
       THEN /\ pc' = "panic"
            /\ checked' = CheckVersion(version)
            /\ UNCHANGED <<r, i>>
       ELSE /\ checked' = TRUE
            /\ i' = 0
            /\ r' = NewReader(KindOf(ctor), valueCount,
                              IF KindOf(ctor) \in {"Packed64", "Packed64SingleBlock"}
                              THEN bitsPerValue
                              ELSE CASE KindOf(ctor) = "Direct8" -> 8
                                     [] KindOf(ctor) = "Direct16" -> 16
                                     [] KindOf(ctor) = "Direct32" -> 32
                                     [] KindOf(ctor) = "Direct64" -> 64
                                     [] KindOf(ctor) = "Packed8ThreeBlocks" -> 24
                                     [] KindOf(ctor) = "Packed16ThreeBlocks" -> 48)
            /\ pc' = CASE KindOf(ctor) \in {"Direct8", "Packed8ThreeBlocks"} -> "ReadBytes"
                       [] KindOf(ctor) \in {"Direct16", "Direct32", "Direct64",
                                            "Packed16ThreeBlocks"} -> "elems"
                       [] KindOf(ctor) = "Packed64" -> "longs"
                       [] KindOf(ctor) = "Packed64SingleBlock" -> "singleBlock"
    /\ UNCHANGED <<entry, version, bitsPerValue, valueCount, format, log, err, ret,
                   remaining, consumed, padRead, ioErr, ioPhase>>
    /\ UNCHANGED <<stream, lastLong, fmtVars, gwVars, tsVars, getVars>>

\* newPacked64SingleBlockFromInput is called here and defined nowhere in
\* the sources: it delivers its reader, or fails and returns either result
SingleBlockFromInput ==
    /\ pc = "singleBlock"
    /\ \/ /\ Logged("payload", TRUE)
          /\ ret' = [r |-> r, err |-> "nil"]
          /\ UNCHANGED <<ioErr, ioPhase>>
       \/ \E e \in Errors, rr \in {r, NilReader} :
             /\ Logged("payload", FALSE)
             /\ ioErr' = e /\ ioPhase' = "singleBlock"
             /\ ret' = [r |-> rr, err |-> e]
    /\ pc' = "done"
    /\ UNCHANGED <<entry, version, bitsPerValue, valueCount, format, r, err, i,
                   remaining, consumed, padRead, checked>>
    /\ UNCHANGED <<stream, lastLong, fmtVars, gwVars, tsVars, getVars>>

\* newDirect8FromInput, newPacked8ThreeBlocksFromInput: the one ReadBytes
\* call that fills the buffer; when it delivers, remaining is computed and
\* the padding loop starts
ReadBytes ==
    /\ pc = "ReadBytes"
    /\ \/ /\ Logged("payload", TRUE)
          /\ r' = [r EXCEPT !.filled = r.len]
          /\ consumed' = consumed + r.len
          /\ remaining' = PaddingBytes(r.kind, version, valueCount)
          /\ i' = 0
          /\ pc' = "pad"
          /\ UNCHANGED <<err, ioErr, ioPhase>>
       \/ \E e \in Errors :
             /\ r.len > 0
             /\ Logged("payload", FALSE)
             /\ err' = e /\ ioErr' = e /\ ioPhase' = "elements"
             /\ pc' = "return"
             /\ UNCHANGED <<r, consumed, remaining, i>>
    /\ UNCHANGED <<entry, version, bitsPerValue, valueCount, format, ret, padRead,
                   checked>>
    /\ UNCHANGED <<stream, lastLong, fmtVars, gwVars, tsVars, getVars>>

\* newDirect16/32/64FromInput, newPacked16ThreeBlocksFromInput: one turn of
\* the loop over the buffer (ReadShort, ReadInt or ReadLong), and after it
\* the err == nil test that computes remaining; newDirect64FromInput
\* returns right after the loop
ReadElement ==
    /\ pc = "elems"
    /\ IF i < r.len
       THEN \/ /\ Logged("payload", TRUE)
               /\ r' = [r EXCEPT !.filled = r.filled + 1]
               /\ consumed' = consumed + CellBytes(r.kind)
               /\ i' = i + 1
               /\ UNCHANGED <<pc, err, ioErr, ioPhase, remaining>>
            \/ \E e \in Errors :
                  /\ Logged("payload", FALSE)
                  /\ err' = e /\ ioErr' = e /\ ioPhase' = "elements"
                  /\ pc' = "return"
                  /\ UNCHANGED <<r, consumed, i, remaining>>
       ELSE /\ IF r.kind = "Direct64"
               THEN pc' = "return" /\ UNCHANGED <<remaining, i>>
               ELSE /\ remaining' = PaddingBytes(r.kind, version, valueCount)
                    /\ i' = 0
                    /\ pc' = "pad"
            /\ UNCHANGED <<log, r, consumed, err, ioErr, ioPhase>>
    /\ UNCHANGED <<entry, version, bitsPerValue, valueCount, format, ret, padRead,
                   checked>>
    /\ UNCHANGED <<stream, lastLong, fmtVars, gwVars, tsVars, getVars>>

\* one turn of a padding loop: for i := 0; i < remaining; i++ { ReadByte }
ReadPadding ==
    /\ pc = "pad"
    /\ IF i < remaining
       THEN \/ /\ Logged("payload", TRUE)
               /\ consumed' = consumed + 1
               /\ padRead' = padRead + 1
               /\ i' = i + 1
               /\ UNCHANGED <<pc, err, ioErr, ioPhase>>
            \/ \E e \in Errors :
                  /\ Logged("payload", FALSE)
                  /\ err' = e /\ ioErr' = e /\ ioPhase' = "padding"
                  /\ pc' = "return"
                  /\ UNCHANGED <<consumed, padRead, i>>
       ELSE /\ pc' = "return"
            /\ UNCHANGED <<log, consumed, padRead, i, err, ioErr, ioPhase>>
    /\ UNCHANGED <<entry, version, bitsPerValue, valueCount, format, r, ret,
                   remaining, checked>>
    /\ UNCHANGED <<stream, lastLong, fmtVars, gwVars, tsVars, getVars>>

\* newPacked64FromInput, "read as many longs as we can": one turn of
\* for i := 0; i < byteCount/8; i++, and after the loop the tests
\* err == nil and remaining := byteCount % 8; remaining != 0
ReadLong ==
    /\ pc = "longs"
    /\ LET byteCount == ByteCount(PACKED, version, valueCount, bitsPerValue) IN
       IF i < byteCount \div 8
       THEN \/ \E w \in WordValues :
                  /\ Logged("payload", TRUE)
                  /\ stream' = Append(stream, <<"long", w>>)
                  /\ r' = [r EXCEPT !.filled = r.filled + 1, !.blocks[i + 1] = w]
                  /\ consumed' = consumed + 8
                  /\ i' = i + 1
                  /\ UNCHANGED <<pc, err, ioErr, ioPhase, remaining, lastLong>>
            \/ \E e \in Errors :
                  /\ Logged("payload", FALSE)
                  /\ err' = e /\ ioErr' = e /\ ioPhase' = "elements"
                  /\ pc' = "return"
                  /\ UNCHANGED <<r, consumed, i, remaining, stream, lastLong>>
       ELSE /\ IF byteCount % 8 # 0
               THEN /\ remaining' = byteCount % 8 /\ i' = 0 /\ pc' = "trail"
                    /\ lastLong' = {}
               ELSE pc' = "return" /\ UNCHANGED <<remaining, i, lastLong>>
            /\ UNCHANGED <<log, r, consumed, err, ioErr, ioPhase, stream>>
    /\ UNCHANGED <<entry, version, bitsPerValue, valueCount, format, ret, padRead,
                   checked>>
    /\ UNCHANGED <<fmtVars, gwVars, tsVars, getVars>>

\* newPacked64FromInput, "read the last bytes": one turn of
\* for i := 0; i < remaining; i++. "b, err := in.ReadByte()" declares a new
\* err inside the loop body: a failure breaks the loop and leaves the
\* function's err nil, so the test after the loop passes and the last block
\* is assigned from what was accumulated. A byte read is accumulated by
\* "lastLong |= int64(b) << (5 - i*8)": the shift count is 5 in the first
\* turn and negative from the second turn on, where the shift panics.
ReadTrailingByte ==
    /\ pc = "trail"
    /\ IF i < remaining
       THEN \/ \E b \in ByteValues :
                  /\ Logged("payload", TRUE)
                  /\ stream' = Append(stream, <<"byte", b>>)
                  /\ consumed' = consumed + 1
                  /\ IF 5 - i * 8 < 0
                     THEN pc' = "panic" /\ UNCHANGED <<lastLong, i>>
                     ELSE /\ lastLong' = lastLong \cup
                                             ShiftLeft64(Int64OfByte(b), 5 - i * 8)
                          /\ i' = i + 1
                          /\ UNCHANGED pc
                  /\ UNCHANGED <<r, ioErr, ioPhase>>
            \/ \E e \in Errors :
                  /\ Logged("payload", FALSE)
                  /\ ioErr' = e /\ ioPhase' = "trailing"
                  /\ r' = [r EXCEPT !.lastSet = TRUE, !.blocks[r.len] = lastLong]
                  /\ pc' = "return"
                  /\ UNCHANGED <<consumed, i, stream, lastLong>>
       ELSE /\ r' = [r EXCEPT !.lastSet = TRUE, !.blocks[r.len] = lastLong]
            /\ pc' = "return"
            /\ UNCHANGED <<log, consumed, i, ioErr, ioPhase, stream, lastLong>>
    /\ UNCHANGED <<entry, version, bitsPerValue, valueCount, format, err, ret,
                   remaining, padRead, checked>>
    /\ UNCHANGED <<fmtVars, gwVars, tsVars, getVars>>

\* "return r, err" ("return ans, err"): every constructor hands back the
\* reader it allocated together with err, whatever err is
Return ==
    /\ pc = "return"
    /\ ret' = [r |-> r, err |-> err]
    /\ pc' = "done"
    /\ UNCHANGED <<entry, version, bitsPerValue, valueCount, format, log, r, err,
                   i, remaining, consumed, padRead, ioErr, ioPhase, checked>>
    /\ UNCHANGED <<stream, lastLong, fmtVars, gwVars, tsVars, getVars>>

NextRead ==
    \/ StartNewPackedReader
    \/ StartNewPackedHeaderNoHeader
    \/ CheckHeader
    \/ ReadBitsPerValue
    \/ ReadValueCount
    \/ ReadFormat
    \/ Dispatch
    \/ SingleBlockFromInput
    \/ ReadBytes
    \/ ReadElement
    \/ ReadPadding
    \/ ReadLong
    \/ ReadTrailingByte
    \/ Return

SpecRead == InitRead /\ [][NextRead]_vars

\* the order in which newPackedReader reads the leading fields
LeadingFields == <<"header", "bitsPerValue", "valueCount", "format">>

\* C2: newPackedReader reads in the order header, bitsPerValue, valueCount,
\* format id, payload: no payload read is made before the four leading
\* fields were read successfully and the version passed the version check,
\* and a failed read is the last read made.
C2_ReadOrder ==
    entry = "newPackedReader" =>
        /\ \A k \in 1..Len(log) :
              log[k][1] = IF k <= 4 THEN LeadingFields[k] ELSE "payload"
        /\ \A k \in 1..(Len(log) - 1) : log[k][2]
        /\ Len(log) > 4 => (checked /\ SupportedVersion(version))

\* a payload read failed after the leading fields and a first payload read
C2_Witness ==
    /\ entry = "newPackedReader" /\ pc = "done"
    /\ Len(log) > 5 /\ ~log[Len(log)][2]

\* C3: a failed read during construction is returned to the caller as that
\* same error, for every reader variant and in every phase (header fields,
\* elements or words, padding, the trailing bytes of Packed64): a
\* construction in which a read failed never returns a nil error.
C3_ErrorReturned ==
    (pc = "done" /\ ioErr # "nil" /\ ioPhase # "singleBlock") => ret.err = ioErr

\* C4: when construction fails with an I/O error while reading elements or
\* padding, the reader handed to the caller with the error is nil, never a
\* partially filled reader.
C4_NoPartialReader ==
    (pc = "done" /\ ioPhase \in {"elements", "padding"}) => ret.r = NilReader

\* C5: a successful construction of a fixed-width reader reads exactly
\* valueCount native-width elements and then discards byteCount(version,
\* valueCount, width) - nativeByteSize*valueCount padding bytes, so that it
\* consumes byteCount(version, valueCount, width) bytes in all, for either
\* version; no padding byte is consumed from BYTE_ALIGNED on.
C5_BytesConsumed ==
    (pc = "done" /\ ioErr = "nil" /\ ret.r.kind \in FixedWidthKinds) =>
        LET n == ret.r.valueCount
            w == ret.r.bitsPerValue
            native == w \div 8
        IN  /\ ret.r.filled * CellBytes(ret.r.kind) = native * n
            /\ ret.r.filled = ret.r.len
            /\ consumed = native * n + padRead
            /\ IF version < PACKED_VERSION_BYTE_ALIGNED
               THEN consumed % 8 = 0 /\ IsCeilOf(consumed \div 8, n * w, 64)
               ELSE consumed * 8 = n * w /\ padRead = 0

\* three 24-bit values of a legacy stream: 9 bytes of values, 7 of padding
C5_Witness ==
    /\ pc = "done" /\ ioErr = "nil" /\ ret.r.kind = "Packed8ThreeBlocks"
    /\ version = PACKED_VERSION_START /\ ret.r.valueCount = 3
    /\ padRead = 7 /\ consumed = 16

\* trailing byte number k (from 0) in its own lane of the last word:
\* bits 56-8k .. 63-8k
TrailingLane(b, k) == {56 - 8 * k + j : j \in Int64OfByte(b)}

\* C11: a successful construction of Packed64 from a stream of byteCount
\* bytes stores the first floor(byteCount/8) words in blocks[0 ..] in stream
\* order and, when r = byteCount mod 8 is not 0, reads exactly r further
\* bytes and accumulates them into the last block, byte k of the r at bits
\* 56-8k .. 63-8k, so that the blocks are those of the payload zero-padded
\* to a word boundary.
C11_Packed64Blocks ==
    (pc = "done" /\ ioErr = "nil" /\ ret.r.kind = "Packed64") =>
        LET byteCount == ByteCount(PACKED, version, ret.r.valueCount, ret.r.bitsPerValue)
            whole == byteCount \div 8
            rest == byteCount % 8
            blocks == ret.r.blocks
        IN  /\ Len(stream) = whole + rest
            /\ \A k \in 1..whole : stream[k] = <<"long", blocks[k]>>
            /\ \A k \in 1..rest : stream[whole + k][1] = "byte"
            /\ rest # 0 =>
                  /\ Len(blocks) = whole + 1
                  /\ blocks[whole + 1] =
                        UNION {TrailingLane(stream[whole + 1 + k][2], k) : k \in 0..(rest - 1)}

----------------------------------------------------------------------------
(* SpecGW: the GrowableWriter. The sources hold the struct, Get and Size;  *)
(* the Mutable behind it and Set follow the design text: a Mutable keeps   *)
(* bitsPerValue bits of each value, and Set moves to a wider Mutable when  *)
(* a value does not fit.                                                   *)

MaxStartBits == 2       \* a writer starts with 1..MaxStartBits bits
MaxGWCount == 2         \* and holds 1..MaxGWCount values
MaxGWValue == 5         \* values 0..MaxGWValue are stored

\* the least width that holds value (at least 1)
RECURSIVE BitsRequired(_)
BitsRequired(value) == IF value < 2 THEN 1 ELSE 1 + BitsRequired(value \div 2)

NewMutable(n, w) ==
    [bitsPerValue |-> w, valueCount |-> n, values |-> [k \in 1..n |-> 0]]

\* PackedIntsReader.Get of the backing
MutableGet(m, index) == m.values[index + 1]

\* Set of the backing: the cell keeps bitsPerValue bits
MutableSet(m, index, value) ==
    [m EXCEPT !.values[index + 1] = value % Pow2(m.bitsPerValue)]

\* Size with the two fields of PackedIntsReaderImpl taken for each other
PackedIntsReaderImplSizeSwapped(p) == p.bitsPerValue

\* PackedIntsReaderImpl.Size
PackedIntsReaderImplSize(p) == p.valueCount

\* GrowableWriter.Get, GrowableWriter.Size: delegate to current
GrowableWriterGet(cur, index) == MutableGet(cur, index)
GrowableWriterSize(cur) == PackedIntsReaderImplSize(cur)

\* GrowableWriter.Set: the backing after the call
GrowableWriterSet(cur, index, value) ==
    IF value < Pow2(cur.bitsPerValue)
    THEN MutableSet(cur, index, value)
    ELSE LET next == NewMutable(PackedIntsReaderImplSize(cur), BitsRequired(value))
             copied == [next EXCEPT !.values =
                           [k \in 1..cur.valueCount |-> MutableGet(cur, k - 1)]]
         IN  MutableSet(copied, index, value)

InitGW ==
    /\ \E w \in 1..MaxStartBits, n \in 1..MaxGWCount :
          /\ current = NewMutable(n, w)
          /\ expected = [k \in 1..n |-> 0]
          /\ size0 = n
    /\ grown = FALSE /\ gwRet = [op |-> "none", index |-> 0, value |-> 0]
    /\ IdleFmt /\ IdleRead /\ IdleTS /\ IdleGet

GWSet ==
    /\ \E index \in 0..(size0 - 1), value \in 0..MaxGWValue :
          /\ current' = GrowableWriterSet(current, index, value)
          /\ expected' = [expected EXCEPT ![index + 1] = value]
          /\ grown' = (grown \/ value >= Pow2(current.bitsPerValue))
          /\ gwRet' = [op |-> "Set", index |-> index, value |-> value]
    /\ UNCHANGED <<size0, fmtVars, readVars, tsVars, getVars>>

GWGet ==
    /\ \E index \in 0..(size0 - 1) :
          gwRet' = [op |-> "Get", index |-> index,
                    value |-> GrowableWriterGet(current, index)]
    /\ UNCHANGED <<current, expected, size0, grown, fmtVars, readVars, tsVars, getVars>>

GWSize ==
    /\ gwRet' = [op |-> "Size", index |-> 0, value |-> GrowableWriterSize(current)]
    /\ UNCHANGED <<current, expected, size0, grown, fmtVars, readVars, tsVars, getVars>>

NextGW == GWSet \/ GWGet \/ GWSize

SpecGW == InitGW /\ [][NextGW]_vars

----------------------------------------------------------------------------
(* SpecTS: a consumer asks fields for their token stream, handing back the *)
(* stream it holds for reuse, and drives the StringTokenStream it gets.    *)
(* A string is the sequence of its characters.                             *)

MaxTokenLen == 2        \* field values have 1..MaxTokenLen characters

Chars == {"a", "b"}
FieldValues == UNION {[1..k -> Chars] : k \in 1..MaxTokenLen}

\* the fields NewStringField can build: a non-empty value and a field type
Fields == [indexed : BOOLEAN, tokenized : BOOLEAN, value : FieldValues]

\* newStringTokenStream: used is false, no value yet, attributes empty
newStringTokenStream ==
    [used |-> FALSE, value |-> <<>>, term |-> <<>>, startOffset |-> 0, endOffset |-> 0]

\* StringTokenStream.setValue
setValue(ts, value) == [ts EXCEPT !.value = value]

\* StringTokenStream.IncrementToken: <<the stream after the call, the result>>
IncrementToken(ts) ==
    IF ts.used
    THEN <<ts, FALSE>>
    ELSE <<[ts EXCEPT !.term = <<>> \o ts.value,
                      !.startOffset = 0, !.endOffset = Len(ts.value),
                      !.used = TRUE],
           TRUE>>

\* TokenStreamImpl.Reset, which StringTokenStream inherits by embedding and
\* does not redefine: returns nil and touches nothing
Reset(ts) == ts

\* TokenStreamImpl.Close
Close(ts) == ts

InitTS ==
    /\ held = "nil" /\ sts = newStringTokenStream /\ lastOp = "none"
    /\ lastRet = "none" /\ incSinceClean = 0
    /\ IdleFmt /\ IdleRead /\ IdleGW /\ IdleGet

\* Field.TokenStream(analyzer, reuse) with reuse the stream the consumer
\* holds; numeric fields and reader values panic as not implemented and are
\* left out
FieldTokenStream ==
    /\ \E f \in Fields :
          IF ~f.indexed
          THEN held' = "nil" /\ UNCHANGED sts
          ELSE IF ~f.tokenized
          THEN /\ held' = "StringTokenStream"
               /\ sts' = setValue(IF held = "StringTokenStream" THEN sts
                                  ELSE newStringTokenStream, f.value)
          ELSE \* analyzer.TokenStreamForString: a stream of the analyzer
               held' = "analyzer" /\ UNCHANGED sts
    /\ lastOp' = "TokenStream" /\ lastRet' = "none" /\ incSinceClean' = 0
    /\ UNCHANGED <<fmtVars, readVars, gwVars, getVars>>

CallIncrementToken ==
    /\ held = "StringTokenStream"
    /\ sts' = IncrementToken(sts)[1]
    /\ lastRet' = IncrementToken(sts)[2]
    /\ lastOp' = "IncrementToken"
    /\ incSinceClean' = IF incSinceClean < 2 THEN incSinceClean + 1 ELSE 2
    /\ UNCHANGED <<held, fmtVars, readVars, gwVars, getVars>>

CallReset ==
    /\ held = "StringTokenStream"
    /\ sts' = Reset(sts)
    /\ lastOp' = "Reset" /\ lastRet' = "none" /\ incSinceClean' = 0
    /\ UNCHANGED <<held, fmtVars, readVars, gwVars, getVars>>

CallClose ==
    /\ held = "StringTokenStream"
    /\ sts' = Close(sts)
    /\ lastOp' = "Close" /\ lastRet' = "none"
    /\ UNCHANGED <<held, incSinceClean, fmtVars, readVars, gwVars, getVars>>

NextTS == CallReset \/ CallIncrementToken \/ CallClose \/ FieldTokenStream

SpecTS == InitTS /\ [][NextTS]_vars

\* C10: Reset() returns a StringTokenStream to a clean state, as if created
\* fresh (and so does Field.TokenStream when it reuses a consumed stream and
\* sets a value on it): the first IncrementToken after it returns true and
\* emits the value as a single token, and every IncrementToken after that
\* returns false until the next Reset.
C10_ResetMakesReusable ==
    lastOp = "IncrementToken" =>
        /\ incSinceClean = 1 => (lastRet = TRUE /\ sts.term = sts.value)
        /\ incSinceClean > 1 => lastRet = FALSE

----------------------------------------------------------------------------
(* SpecGet: Packed8ThreeBlocks.Get on a reader whose blocks ReadBytes has  *)
(* filled with any bytes.                                                  *)

MaxGetCount == 2        \* readers of 1..MaxGetCount values are asked

\* the bytes a block may hold
BlockValues == {0, 1, 128, 255}

RECURSIVE SumPow2(_)
SumPow2(S) ==
    IF S = {} THEN 0
    ELSE LET k == CHOOSE x \in S : TRUE IN Pow2(k) + SumPow2(S \ {k})

\* x << s and x | y on bytes: the result is a byte, the type of the operands
ShiftLeft8(x, s) == (x * Pow2(s)) % 256
Or8(x, y) == SumPow2(Int64OfByte(x) \cup Int64OfByte(y))

\* Packed8ThreeBlocks.Get: blocks is a []byte, so both shifts and the ors are
\* taken in 8 bits before the result becomes the int64 returned
Packed8ThreeBlocksGet(blocks, index) ==
    LET o == index * 3 IN
    Or8(Or8(ShiftLeft8(blocks[o + 1], 16), ShiftLeft8(blocks[o + 2], 8)), blocks[o + 3])

InitGet ==
    /\ \E n \in 1..MaxGetCount : gBlocks \in [1..(3 * n) -> BlockValues]
    /\ gIndex = -1 /\ gRet = -1
    /\ IdleFmt /\ IdleRead /\ IdleGW /\ IdleTS

CallGet ==
    /\ \E index \in 0..((Len(gBlocks) \div 3) - 1) :
          /\ gIndex' = index
          /\ gRet' = Packed8ThreeBlocksGet(gBlocks, index)
    /\ UNCHANGED <<gBlocks, fmtVars, readVars, gwVars, tsVars>>

NextGet == CallGet

SpecGet == InitGet /\ [][NextGet]_vars

\* C12: for 0 <= i < valueCount, Packed8ThreeBlocks.Get(i) is the 24-bit
\* value high<<16 | mid<<8 | low of the cells 3i, 3i+1, 3i+2, that is
\* 65536*blocks[3i] + 256*blocks[3i+1] + blocks[3i+2], in [0, 2^24), with no
\* bit of the high or middle byte lost to the width of the cell type.
C12_Get24 ==
    gIndex >= 0 =>
        /\ gRet = 65536 * gBlocks[3 * gIndex + 1] + 256 * gBlocks[3 * gIndex + 2]
                    + gBlocks[3 * gIndex + 3]
        /\ gRet >= 0 /\ gRet < 16777216

====
